---- MODULE Spec2Model ----
(***************************************************************************)
(* Model of the concurrent domain-probing engine of cleaner-adblock:       *)
(* getSmartVariants, tryUrl, checkDomain and processDomains                *)
(* (lib/checkers/domainChecker.js, kept in src/lib/parsers/                *)
(* domainExtractor.js from line 261 on), PagePool (lib/utils/pagePool.js)  *)
(* and the limits of lib/config/defaults.js (src/unnamed/part_007).        *)
(*                                                                         *)
(* Strings are modelled by what the code reads from them:                  *)
(*   - a host name is the sequence of its dot-separated labels,            *)
(*     <<"www", "a", "com">> for www.a.com;                                *)
(*   - a URL is a record [scheme, host];                                   *)
(*   - an error message is the set of the substrings tryUrl searches for   *)
(*     that occur in it.                                                   *)
(* null is NullStatus for a status code, NullCode for an error code,       *)
(* NullUrl for a URL and NoReason for a reason.                            *)
(***************************************************************************)
EXTENDS Integers, Sequences, FiniteSets, TLC

(***************************************************************************)
(* Program constants                                                       *)
(***************************************************************************)
MAX_VARIANT_ATTEMPTS == 1

MAX_RETRIES_PER_ERROR_TYPE == 1

MAX_POOL_SIZE == 10

(***************************************************************************)
(* Bounds of the model                                                     *)
(***************************************************************************)
MaxTasks == 2

MaxConcurrency == 2

\* failures of the reset navigation in PagePool.acquire that one run suffers
MaxResetFailures == 1

(***************************************************************************)
(* Hosts and URLs                                                          *)
(***************************************************************************)
NullStatus == 0

NullCode == "null"

NullUrl == [scheme |-> "null", host |-> <<>>]

Url(scheme, host) == [scheme |-> scheme, host |-> host]

\* domain.replace(/^www\./, '')
StripWww(host) ==
    IF Len(host) > 0 /\ host[1] = "www" THEN Tail(host) ELSE host

\* parts.slice(-2)
LastTwo(parts) ==
    IF Len(parts) <= 2 THEN parts ELSE SubSeq(parts, Len(parts) - 1, Len(parts))

getBaseDomain(domain) == LastTwo(StripWww(domain))

hasSubdomain(domain) == Len(StripWww(domain)) - 1 > 1

stripSubdomain(domain) == LastTwo(StripWww(domain))

\* the comparison with the ignoreSimilar test lost
isSimilarWhateverTheFlag(originalDomain, finalDomain, ignoreSimilar) ==
    getBaseDomain(originalDomain) = getBaseDomain(finalDomain)

isSimilarDomainRedirect(originalDomain, finalDomain, ignoreSimilar) ==
    IF ~ignoreSimilar THEN FALSE
    ELSE getBaseDomain(originalDomain) = getBaseDomain(finalDomain)

\* extractDomain: new URL(urlStr).hostname.replace(/^www\./, '')
extractDomain(url) == StripWww(url.host)

(***************************************************************************)
(* getSmartVariants                                                        *)
(***************************************************************************)
IsHttps(url) == url.scheme = "https"

\* the filter that keeps every URL
filterHttpsKeepsAll(urls, httpsOnly) == urls

filterHttps(urls, httpsOnly) ==
    IF httpsOnly THEN SelectSeq(urls, IsHttps) ELSE urls

\* the function with its special cases lost: the default fallback always
getSmartVariantsDefaultOnly(domain, errorCode, statusCode, lastUrl, httpsOnly) ==
    LET wwwDomain == IF Len(domain) > 0 /\ domain[1] = "www"
                     THEN domain ELSE <<"www">> \o domain
    IN  IF ~(Len(lastUrl.host) > 0 /\ lastUrl.host[1] = "www")
        THEN filterHttps(<<Url("https", wwwDomain), Url("http", domain),
                           Url("http", wwwDomain)>>, httpsOnly)
        ELSE filterHttps(<<Url("http", domain), Url("http", wwwDomain)>>, httpsOnly)

getSmartVariants(domain, errorCode, statusCode, lastUrl, httpsOnly) ==
    LET hasWww       == Len(domain) > 0 /\ domain[1] = "www"
        wwwDomain    == IF hasWww THEN domain ELSE <<"www">> \o domain
        isSubdomain  == hasSubdomain(domain)
        baseDomain   == stripSubdomain(domain)
        wwwBase      == <<"www">> \o baseDomain
        lastWasHttps == lastUrl.scheme = "https"
        lastWasWww   == Len(lastUrl.host) > 0 /\ lastUrl.host[1] = "www"
        F(urls)      == filterHttps(urls, httpsOnly)
    IN  IF errorCode = "ERR_NAME_NOT_RESOLVED" THEN
            IF ~lastWasWww
            THEN F(<<Url("https", wwwDomain), Url("http", wwwDomain)>>)
            ELSE <<>>
        ELSE IF errorCode = "ERR_CONNECTION_REFUSED" THEN
            IF lastWasHttps
            THEN F(<<Url("http", domain), Url("http", wwwDomain), Url("https", wwwDomain)>>)
            ELSE IF ~lastWasWww
            THEN F(<<Url("http", wwwDomain), Url("https", wwwDomain)>>)
            ELSE <<>>
        ELSE IF errorCode = "ERR_CONNECTION_TIMED_OUT" THEN
            IF ~lastWasWww
            THEN F(<<Url("https", wwwDomain), Url("http", domain), Url("http", wwwDomain)>>)
            ELSE F(<<Url("http", domain), Url("http", wwwDomain)>>)
        ELSE IF errorCode = "ERR_BLOCKED_BY_CLIENT" THEN
            <<>>
        ELSE IF statusCode = 520 THEN
            IF lastWasHttps
            THEN F(<<Url("http", domain), Url("https", wwwDomain), Url("http", wwwDomain)>>)
            ELSE IF ~lastWasWww
            THEN F(<<Url("https", wwwDomain), Url("http", wwwDomain)>>)
            ELSE <<>>
        ELSE IF statusCode = 403 /\ isSubdomain THEN
            IF lastWasHttps
            THEN F(<<Url("http", domain), Url("https", baseDomain), Url("https", wwwBase),
                     Url("http", baseDomain), Url("http", wwwBase)>>)
            ELSE F(<<Url("https", baseDomain), Url("https", wwwBase),
                     Url("http", baseDomain), Url("http", wwwBase)>>)
        ELSE IF ~lastWasWww
            THEN F(<<Url("https", wwwDomain), Url("http", domain), Url("http", wwwDomain)>>)
            ELSE F(<<Url("http", domain), Url("http", wwwDomain)>>)

(***************************************************************************)
(* tryUrl: the result built from what page.goto gave                       *)
(***************************************************************************)
NoReason == [kind |-> "none", status |-> NullStatus, marks |-> {}]

\* the reason of a failed response left null
HttpReasonLeftNull(statusCode) == [kind |-> "none", status |-> NullStatus, marks |-> {}]

HttpReason(statusCode) == [kind |-> "http", status |-> statusCode, marks |-> {}]

ErrorReason(message) == [kind |-> "error", status |-> NullStatus, marks |-> message]

\* the test with the bound 400 taken as alive
isDeadAbove400(statusCode) == statusCode > 400 \/ statusCode = NullStatus

\* const isDead = statusCode >= 400 || statusCode === null
isDead(statusCode) == statusCode >= 400 \/ statusCode = NullStatus

\* tryUrl, the path after page.goto resolved: statusCode is response.status()
\* (NullStatus when goto gave no response), finalUrl is page.url().
ResponseResult(statusCode, finalUrl) ==
    [success    |-> ~isDead(statusCode),
     statusCode |-> statusCode,
     finalUrl   |-> finalUrl,
     errorCode  |-> NullCode,
     reason     |-> IF isDead(statusCode) THEN HttpReason(statusCode) ELSE NoReason,
     isDead     |-> FALSE]

\* tryUrl, the catch block: the first substring found decides the code.
ExtractErrorCode(message) ==
    IF "ERR_NAME_NOT_RESOLVED" \in message THEN "ERR_NAME_NOT_RESOLVED"
    ELSE IF "ERR_CONNECTION_REFUSED" \in message THEN "ERR_CONNECTION_REFUSED"
    ELSE IF "ERR_CONNECTION_TIMED_OUT" \in message \/ "timeout" \in message
        THEN "ERR_CONNECTION_TIMED_OUT"
    ELSE IF "ERR_BLOCKED_BY_CLIENT" \in message THEN "ERR_BLOCKED_BY_CLIENT"
    ELSE IF "ERR_CONNECTION_RESET" \in message THEN "ERR_CONNECTION_RESET"
    ELSE IF "ERR_SSL_PROTOCOL_ERROR" \in message THEN "ERR_SSL_PROTOCOL_ERROR"
    ELSE IF "ERR_ADDRESS_UNREACHABLE" \in message THEN "ERR_ADDRESS_UNREACHABLE"
    ELSE IF "ERR_CERT" \in message \/ "certificate" \in message THEN "ERR_CERT"
    ELSE NullCode

ErrorResult(message) ==
    LET errorCode   == ExtractErrorCode(message)
        isCertError == errorCode = "ERR_CERT"
        isBlocked   == errorCode = "ERR_BLOCKED_BY_CLIENT"
    IN  [success    |-> FALSE,
         statusCode |-> NullStatus,
         finalUrl   |-> NullUrl,
         errorCode  |-> errorCode,
         reason     |-> ErrorReason(message),
         isDead     |-> ~isCertError /\ ~isBlocked /\ errorCode # NullCode]

(***************************************************************************)
(* checkDomain: the retry loop and the final classification                *)
(***************************************************************************)
ErrorCodes ==
    {"ERR_NAME_NOT_RESOLVED", "ERR_CONNECTION_REFUSED", "ERR_CONNECTION_TIMED_OUT",
     "ERR_BLOCKED_BY_CLIENT", "ERR_CONNECTION_RESET", "ERR_SSL_PROTOCOL_ERROR",
     "ERR_ADDRESS_UNREACHABLE", "ERR_CERT"}

NoSuccess ==
    [found |-> FALSE, url |-> NullUrl, finalUrl |-> NullUrl, statusCode |-> NullStatus,
     isRedirecting |-> FALSE, isSimilarRedirect |-> FALSE,
     originalDomain |-> <<>>, finalDomain |-> <<>>]

\* the while condition with an off-by-one slip
LoopConditionOffByOne(attemptCount, found, maxAttempts) ==
    attemptCount <= maxAttempts /\ ~found

\* while (attemptCount < MAX_VARIANT_ATTEMPTS && !successResult), the value
\* of MAX_VARIANT_ATTEMPTS being maxAttempts
LoopCondition(attemptCount, found, maxAttempts) ==
    attemptCount < maxAttempts /\ ~found

\* The state of one checkDomain call before its first loop test, in a
\* program whose MAX_VARIANT_ATTEMPTS is maxAttempts.
checkDomainStartWith(domain, httpsOnly, ignoreSimilar, maxAttempts) ==
    [domain        |-> domain,
     httpsOnly     |-> httpsOnly,
     ignoreSimilar |-> ignoreSimilar,
     maxAttempts   |-> maxAttempts,
     attempts      |-> <<>>,
     successResult |-> NoSuccess,
     currentUrl    |-> Url("https", domain),
     attemptCount  |-> 0,
     errorCounts   |-> [c \in ErrorCodes |-> 0],
     looping       |-> LoopCondition(0, FALSE, maxAttempts)]

\* The state of one checkDomain call before its first loop test.
checkDomainStart(domain, httpsOnly, ignoreSimilar) ==
    checkDomainStartWith(domain, httpsOnly, ignoreSimilar, MAX_VARIANT_ATTEMPTS)

\* The successResult built when result.success.
SuccessOf(s, result) ==
    LET originalDomain == extractDomain(s.currentUrl)
        finalDomain    == extractDomain(result.finalUrl)
        isRedirecting  == originalDomain # finalDomain
    IN  [found |-> TRUE, url |-> s.currentUrl, finalUrl |-> result.finalUrl,
         statusCode |-> result.statusCode,
         isRedirecting |-> isRedirecting,
         isSimilarRedirect |->
             isRedirecting /\ isSimilarDomainRedirect(originalDomain, finalDomain, s.ignoreSimilar),
         originalDomain |-> IF isRedirecting THEN originalDomain ELSE <<>>,
         finalDomain    |-> IF isRedirecting THEN finalDomain ELSE <<>>]

AttemptOf(s, result) ==
    LET succ == SuccessOf(s, result)
    IN  [url        |-> s.currentUrl,
         tried      |-> TRUE,
         success    |-> result.success,
         statusCode |-> result.statusCode,
         reason     |-> result.reason,
         errorCode  |-> result.errorCode,
         similarRedirect |->
             IF result.success /\ succ.isRedirecting /\ succ.isSimilarRedirect
             THEN succ.finalDomain ELSE <<>>,
         redirect   |->
             IF result.success /\ succ.isRedirecting /\ ~succ.isSimilarRedirect
             THEN succ.finalDomain ELSE <<>>]

\* the tally with the increment lost
tallyForgets(errorCounts, errorCode) == errorCounts

\* errorCounts[result.errorCode] = (errorCounts[result.errorCode] || 0) + 1
tally(errorCounts, errorCode) ==
    [errorCounts EXCEPT ![errorCode] = @ + 1]

\* One pass of the loop body after tryUrl returned result, up to the next
\* evaluation of the loop condition.
afterTryUrl(s, result) ==
    LET attempts == Append(s.attempts, AttemptOf(s, result))
        counted  == result.errorCode # NullCode
        errorCounts ==
            IF counted
            THEN tally(s.errorCounts, result.errorCode)
            ELSE s.errorCounts
        nextVariants ==
            getSmartVariants(s.domain, result.errorCode, result.statusCode,
                             s.currentUrl, s.httpsOnly)
    IN  IF result.success THEN
            [s EXCEPT !.attempts = attempts,
                      !.successResult = SuccessOf(s, result),
                      !.looping = FALSE]
        ELSE IF counted /\ errorCounts[result.errorCode] > MAX_RETRIES_PER_ERROR_TYPE THEN
            [s EXCEPT !.attempts = attempts,
                      !.errorCounts = errorCounts,
                      !.looping = FALSE]
        ELSE IF Len(nextVariants) > 0 THEN
            [s EXCEPT !.attempts = attempts,
                      !.errorCounts = errorCounts,
                      !.currentUrl = nextVariants[1],
                      !.attemptCount = @ + 1,
                      !.looping = LoopCondition(s.attemptCount + 1, FALSE, s.maxAttempts)]
        ELSE
            [s EXCEPT !.attempts = attempts,
                      !.errorCounts = errorCounts,
                      !.looping = FALSE]

\* attempts.some(a => a.errorCode === 'ERR_BLOCKED_BY_CLIENT'), with the branch lost
wasBlockedNever(attempts) == FALSE

\* attempts.some(a => a.errorCode === 'ERR_BLOCKED_BY_CLIENT')
wasBlocked(attempts) ==
    \E i \in 1..Len(attempts) : attempts[i].errorCode = "ERR_BLOCKED_BY_CLIENT"

\* attempts.find(a => a.tried) || attempts[0]
lastAttempt(attempts) ==
    IF \E i \in 1..Len(attempts) : attempts[i].tried
    THEN attempts[CHOOSE i \in 1..Len(attempts) :
                      /\ attempts[i].tried
                      /\ \A j \in 1..(i - 1) : ~attempts[j].tried]
    ELSE attempts[1]

AllVariantsFailed == [kind |-> "all-variants-failed", status |-> NullStatus, marks |-> {}]

BlockedReason == [kind |-> "blocked-by-browser", status |-> NullStatus, marks |-> {}]

\* "Determine final result": the value checkDomain returns.
\* type "null" is the Active outcome (result.type stays null).
checkDomainResult(s) ==
    LET base == [type |-> "null", domain |-> s.domain, finalDomain |-> <<>>,
                 originalUrl |-> NullUrl, finalUrl |-> NullUrl,
                 statusCode |-> NullStatus, reason |-> NoReason]
        sr   == s.successResult
        la   == IF Len(s.attempts) > 0 THEN lastAttempt(s.attempts)
                ELSE [statusCode |-> NullStatus, reason |-> NoReason]
    IN  IF sr.found THEN
            IF sr.isRedirecting /\ ~sr.isSimilarRedirect
            THEN [base EXCEPT !.type = "redirect",
                              !.finalDomain = sr.finalDomain,
                              !.originalUrl = sr.url,
                              !.finalUrl = sr.finalUrl,
                              !.statusCode = sr.statusCode]
            ELSE base
        ELSE IF wasBlocked(s.attempts) THEN
            [base EXCEPT !.type = "inconclusive",
                         !.statusCode = la.statusCode,
                         !.reason = BlockedReason]
        ELSE
            [base EXCEPT !.type = "dead",
                         !.statusCode = la.statusCode,
                         !.reason = IF la.reason.kind = "none"
                                    THEN AllVariantsFailed ELSE la.reason]

(***************************************************************************)
(* The engine: processDomains, its workers, tryUrl step by step, PagePool  *)
(* and the page driver.                                                    *)
(*                                                                         *)
(* The page driver (puppeteer) is outside the repository.  What the model  *)
(* takes from it: a page shows one document at a time; page.goto starts a  *)
(* navigation of the page and returns when it ends; a navigation started   *)
(* on a page replaces the one in progress there, and the goto that waits   *)
(* for the replaced navigation is rejected, or returns with the document   *)
(* the page shows by then, or stays pending; closing a page rejects the    *)
(* goto pending on it; a navigation may never end at all.                  *)
(***************************************************************************)
VARIABLES
    tasks,          \* domainObjects: the input list, task t is tasks[t]
    concurrency,    \* options.concurrency
    httpsOnly,      \* options.httpsOnly
    ignoreSimilar,  \* ignoreSimilar
    mainPc,         \* processDomains: "off", "running", "done"
    queue,          \* the shared queue (task numbers)
    processedCount,
    results,        \* the results array
    wpc,            \* where each worker is
    wtask,          \* the task a worker holds (0: none)
    wscan,          \* the checkDomain state of the worker's task
    wpage,          \* tryUrl: page (0: none)
    wreleased,      \* tryUrl: pageReleased
    wtimer,         \* tryUrl: forceCloseTimer is armed
    wresp,          \* what the network answers to the worker's navigation
    available,      \* PagePool.available
    inUse,          \* PagePool.inUse
    numPages,       \* pages created so far by browser.newPage()
    closed,         \* pages closed so far
    pageDoc,        \* the document each page shows
    navOwner,       \* the worker whose goto started the page's last navigation
    resetFailures,  \* reset navigations that have failed so far
    taken,          \* history: how often each task was taken from the queue
    scanned,        \* history: the checkDomain calls made for each task
    outcomes,       \* history: the result types checkDomain returned for each task
    delivered,      \* history: how often each task's result was passed to onResult
    cd,             \* a single checkDomain call, for the scan specification
    gv,             \* a single getSmartVariants call, for the variants specification
    tokensRemoved,  \* history: the tokens removed from rateLimiter so far
    navStarted,     \* history: the page.goto(url) calls of tryUrl made so far
    escaped,        \* history: the exceptions that left checkDomain so far
    closeFails,     \* the browser of this run rejects page.close()
    released,       \* pagePool.release / page.close calls made by tryUrl so far
    throwsOn        \* the tasks for whose result onResult throws

vars ==
    <<tasks, concurrency, httpsOnly, ignoreSimilar, mainPc, queue, processedCount,
      results, wpc, wtask, wscan, wpage, wreleased, wtimer, wresp, available, inUse,
      numPages, closed, pageDoc, navOwner, resetFailures, taken, scanned, outcomes,
      delivered, escaped, closeFails, cd, gv, tokensRemoved, navStarted, released, throwsOn>>

engineVars ==
    <<tasks, concurrency, httpsOnly, ignoreSimilar, mainPc, queue, processedCount,
      results, wpc, wtask, wscan, wpage, wreleased, wtimer, wresp, available, inUse,
      numPages, closed, pageDoc, navOwner, resetFailures, taken, scanned, outcomes,
      delivered, tokensRemoved, navStarted, escaped, closeFails, released, throwsOn>>

\* Inputs of the engine specification: the first n of the tasks a.com,
\* b.com, a.com, ...
TaskDomain(i) == IF i % 2 = 1 THEN <<"a", "com">> ELSE <<"b", "com">>

\* the spawn loop run once too often
spawnedOneTooMany(n) == 1..(n + 1)

\* for (let i = 0; i < concurrency; i++) workers.push(worker(i))
spawned(n) == 1..n

AllWorkers == 1..(MaxConcurrency + 1)

\* Math.min(concurrency, 10)
pagePoolSize(n) == IF n < MAX_POOL_SIZE THEN n ELSE MAX_POOL_SIZE

\* No run creates more pages: the pool's, and one per attempt.
MaxHandles == MaxConcurrency + 1 + MaxTasks * (MAX_VARIANT_ATTEMPTS + 1)

Handles == 1..MaxHandles

BlankUrl == [scheme |-> "about", host |-> <<"blank">>]

ErrorPageUrl == [scheme |-> "chrome-error", host |-> <<"chromewebdata">>]

BlankDoc == [url |-> BlankUrl, status |-> NullStatus]

NoResp == [kind |-> "none", status |-> NullStatus, final |-> NullUrl, msg |-> {}]

Resp(status, final) == [kind |-> "resp", status |-> status, final |-> final, msg |-> {}]

Err(msg) == [kind |-> "err", status |-> NullStatus, final |-> NullUrl, msg |-> msg]

Hang == [kind |-> "hang", status |-> NullStatus, final |-> NullUrl, msg |-> {}]

\* What the network can answer to a navigation to url (engine specification).
EngineAnswers(url) ==
    {Resp(200, url), Err({"ERR_NAME_NOT_RESOLVED"}), Hang}

\* The error of a goto rejected because its page was closed or because its
\* navigation was replaced: its text holds none of the searched substrings.
AbortMessage == {}

NoScan == checkDomainStart(<<>>, FALSE, FALSE)

NoCall ==
    [pc |-> "off", domain |-> <<>>, errorCode |-> NullCode, statusCode |-> NullStatus,
     lastUrl |-> NullUrl, strict |-> <<>>, loose |-> <<>>]

NoResult ==
    [type |-> "none", domain |-> <<>>, finalDomain |-> <<>>, originalUrl |-> NullUrl,
     finalUrl |-> NullUrl, statusCode |-> NullStatus, reason |-> NoReason]

Init ==
    /\ tasks \in {[i \in 1..n |-> TaskDomain(i)] : n \in 0..MaxTasks}
    /\ concurrency \in 1..MaxConcurrency
    /\ httpsOnly = FALSE
    /\ ignoreSimilar = FALSE
    /\ mainPc = "running"
    /\ queue = [i \in 1..Len(tasks) |-> i]
    /\ processedCount = 0
    /\ results = <<>>
    /\ wpc = [w \in AllWorkers |-> IF w \in spawned(concurrency) THEN "idle" ELSE "none"]
    /\ wtask = [w \in AllWorkers |-> 0]
    /\ wscan = [w \in AllWorkers |-> NoScan]
    /\ wpage = [w \in AllWorkers |-> 0]
    /\ wreleased = [w \in AllWorkers |-> FALSE]
    /\ wtimer = [w \in AllWorkers |-> FALSE]
    /\ wresp = [w \in AllWorkers |-> NoResp]
    /\ available = [i \in 1..pagePoolSize(concurrency) |-> i]
    /\ inUse = {}
    /\ numPages = pagePoolSize(concurrency)
    /\ closed = {}
    /\ pageDoc = [h \in Handles |-> BlankDoc]
    /\ navOwner = [h \in Handles |-> 0]
    /\ resetFailures = 0
    /\ taken = [t \in 1..Len(tasks) |-> 0]
    /\ scanned = [t \in 1..Len(tasks) |-> 0]
    /\ outcomes = [t \in 1..Len(tasks) |-> <<>>]
    /\ delivered = [t \in 1..Len(tasks) |-> 0]
    /\ cd = [pc |-> "off", scan |-> NoScan, result |-> NoResult]
    /\ gv = NoCall
    /\ tokensRemoved = 0
    /\ navStarted = 0
    /\ escaped = 0
    /\ closeFails = FALSE
    /\ released = 0
    /\ throwsOn = {}

(***************************************************************************)
(* PagePool.release and the worker's path out of checkDomain               *)
(***************************************************************************)
\* page.close() on each page of S, a failure being caught and ignored: the
\* pages closed afterwards.
closeAll(S) == IF closeFails THEN closed ELSE closed \cup S

\* release that returns every page to the pool
releaseAlwaysReturns(h) ==
    /\ inUse' = inUse \ {h}
    /\ available' = Append(available, h)
    /\ closed' = closed

\* PagePool.release(page): a page in inUse goes back to available, any
\* other page is closed; a close that fails is ignored.
release(h) ==
    IF h \in inUse
    THEN /\ inUse' = inUse \ {h}
         /\ available' = Append(available, h)
         /\ closed' = closed
    ELSE /\ closed' = closeAll({h})
         /\ UNCHANGED <<available, inUse>>

\* queue.shift() that leaves the task in the queue
shiftLeavesTask(q) == q

\* the queue after queue.shift()
shift(q) == Tail(q)

\* the test with the Active results let through
isReportedAlways(type) == TRUE

\* if (result && result.type !== null): the results that are pushed and
\* passed to onResult
isReported(type) == type # "null"

\* a push that loses the result
pushLost(list, result) == list

\* results.push(result)
push(list, result) == Append(list, result)

\* checkDomain goes round its loop (the next tryUrl starts by waiting for a
\* token) or leaves it, classifies, and the worker pushes the result.
Proceed(w, t, s) ==
    IF s.looping
    THEN /\ wscan' = [wscan EXCEPT ![w] = s]
         /\ wpc' = [wpc EXCEPT ![w] = "token"]
         /\ UNCHANGED <<results, outcomes>>
    ELSE LET result == checkDomainResult(s)
         IN  /\ wscan' = [wscan EXCEPT ![w] = NoScan]
             /\ outcomes' = [outcomes EXCEPT ![t] = Append(@, result.type)]
             /\ results' = IF isReported(result.type)
                           THEN push(results, result) ELSE results
             /\ wpc' = [wpc EXCEPT ![w] =
                           IF isReported(result.type) THEN "callback" ELSE "idle"]

(***************************************************************************)
(* processDomains.worker                                                   *)
(***************************************************************************)
\* queue.shift() gave a task: index = processedCount++, checkDomain starts.
TakeTask(w) ==
    /\ mainPc = "running"
    /\ wpc[w] = "idle"
    /\ queue # <<>>
    /\ LET t == Head(queue)
       IN  /\ queue' = shift(queue)
           /\ processedCount' = processedCount + 1
           /\ wtask' = [wtask EXCEPT ![w] = t]
           /\ taken' = [taken EXCEPT ![t] = @ + 1]
           /\ scanned' = [scanned EXCEPT ![t] = @ + 1]
           /\ Proceed(w, t, checkDomainStart(tasks[t], httpsOnly, ignoreSimilar))
    /\ UNCHANGED <<resetFailures, tasks, concurrency, httpsOnly, ignoreSimilar, mainPc, wpage,
                   wreleased, wtimer, wresp, available, inUse, numPages, closed,
                   pageDoc, navOwner, delivered, escaped, closeFails, cd, gv, tokensRemoved, navStarted, released, throwsOn>>

\* queue.shift() gave undefined: the worker ends.
WorkerExit(w) ==
    /\ mainPc = "running"
    /\ wpc[w] = "idle"
    /\ queue = <<>>
    /\ wpc' = [wpc EXCEPT ![w] = "exited"]
    /\ wtask' = [wtask EXCEPT ![w] = 0]
    /\ UNCHANGED <<resetFailures, tasks, concurrency, httpsOnly, ignoreSimilar, mainPc, queue,
                   processedCount, results, wscan, wpage, wreleased, wtimer, wresp,
                   available, inUse, numPages, closed, pageDoc, navOwner,
                   taken, scanned, outcomes, delivered, escaped, closeFails, cd, gv, tokensRemoved, navStarted, released, throwsOn>>

\* await onResult(result), which returns, or throws when the task is in
\* throwsOn; the throw is caught where it is awaited and the worker goes on
\* as after a return: the progress update, then back to the queue.
Callback(w) ==
    /\ wpc[w] = "callback"
    /\ delivered' = [delivered EXCEPT ![wtask[w]] = @ + 1]
    /\ wtask' = [wtask EXCEPT ![w] = 0]
    /\ wpc' = [wpc EXCEPT ![w] = "idle"]
    /\ UNCHANGED <<resetFailures, tasks, concurrency, httpsOnly, ignoreSimilar, mainPc, queue,
                   processedCount, results, wscan, wpage, wreleased, wtimer,
                   wresp, available, inUse, numPages, closed, pageDoc, navOwner,
                   taken, scanned, outcomes, escaped, closeFails, cd, gv, tokensRemoved, navStarted, released, throwsOn>>

(***************************************************************************)
(* tryUrl                                                                  *)
(***************************************************************************)
\* a call that takes no token
removeTokensTakesNone(removed, count) == removed

\* rateLimiter.removeTokens(count): the tokens removed so far, after the call
removeTokens(removed, count) == removed + count

\* await rateLimiter.removeTokens(1): the limiter lets the caller through
\* once its bucket holds a token.
RemoveToken(w) ==
    /\ wpc[w] = "token"
    /\ tokensRemoved' = removeTokens(tokensRemoved, 1)
    /\ wpc' = [wpc EXCEPT ![w] = "acquire"]
    /\ UNCHANGED <<resetFailures, tasks, concurrency, httpsOnly, ignoreSimilar, mainPc, queue,
                   processedCount, results, wtask, wscan, wpage, wreleased, wtimer,
                   wresp, available, inUse, numPages, closed, pageDoc, navOwner,
                   taken, scanned, outcomes, delivered, escaped, closeFails, cd, gv, navStarted, released, throwsOn>>

\* pagePool.acquire(), pool empty: a temporary page from browser.newPage().
AcquireTransient(w) ==
    /\ wpc[w] = "acquire"
    /\ available = <<>>
    /\ numPages < MaxHandles
    /\ numPages' = numPages + 1
    /\ wpage' = [wpage EXCEPT ![w] = numPages + 1]
    /\ wpc' = [wpc EXCEPT ![w] = "page"]
    /\ UNCHANGED <<resetFailures, tasks, concurrency, httpsOnly, ignoreSimilar, mainPc, queue,
                   processedCount, results, wtask, wscan, wreleased, wtimer, wresp,
                   available, inUse, closed, pageDoc, navOwner, taken,
                   scanned, outcomes, delivered, escaped, closeFails, cd, gv, tokensRemoved, navStarted, released, throwsOn>>

\* pagePool.acquire(): available.pop(), inUse.add(page), and the reset
\* navigation page.goto('about:blank') starts.
AcquirePooled(w) ==
    /\ wpc[w] = "acquire"
    /\ available # <<>>
    /\ LET h == available[Len(available)]
       IN  /\ available' = SubSeq(available, 1, Len(available) - 1)
           /\ inUse' = inUse \cup {h}
           /\ wpage' = [wpage EXCEPT ![w] = h]
           /\ navOwner' = [navOwner EXCEPT ![h] = w]
    /\ wpc' = [wpc EXCEPT ![w] = "reset"]
    /\ UNCHANGED <<resetFailures, tasks, concurrency, httpsOnly, ignoreSimilar, mainPc, queue,
                   processedCount, results, wtask, wscan, wreleased, wtimer, wresp,
                   numPages, closed, pageDoc, taken, scanned, outcomes,
                   delivered, escaped, closeFails, cd, gv, tokensRemoved, navStarted, released, throwsOn>>

\* The reset navigation ended: acquire() returns the page.
ResetOk(w) ==
    /\ wpc[w] = "reset"
    /\ wpage[w] \notin closed
    /\ pageDoc' = [pageDoc EXCEPT ![wpage[w]] = BlankDoc]
    /\ navOwner' = [navOwner EXCEPT ![wpage[w]] = 0]
    /\ wpc' = [wpc EXCEPT ![w] = "page"]
    /\ UNCHANGED <<resetFailures, tasks, concurrency, httpsOnly, ignoreSimilar, mainPc, queue,
                   processedCount, results, wtask, wscan, wpage, wreleased, wtimer,
                   wresp, available, inUse, numPages, closed, taken, scanned,
                   outcomes, delivered, escaped, closeFails, cd, gv, tokensRemoved, navStarted, released, throwsOn>>

\* the failed page left in inUse
discardNothing(S, h) == S

\* this.inUse.delete(page)
discard(S, h) == S \ {h}

\* The reset navigation threw (its 5 s timeout, a closed page): the page is
\* taken out of inUse and acquire() returns a page from browser.newPage().
ResetFail(w) ==
    /\ wpc[w] = "reset"
    /\ numPages < MaxHandles
    /\ resetFailures < MaxResetFailures
    /\ resetFailures' = resetFailures + 1
    /\ inUse' = discard(inUse, wpage[w])
    /\ navOwner' = [navOwner EXCEPT ![wpage[w]] = 0]
    /\ numPages' = numPages + 1
    /\ wpage' = [wpage EXCEPT ![w] = numPages + 1]
    /\ wpc' = [wpc EXCEPT ![w] = "page"]
    /\ UNCHANGED <<tasks, concurrency, httpsOnly, ignoreSimilar, mainPc, queue,
                   processedCount, results, wtask, wscan, wreleased, wtimer, wresp,
                   available, closed, pageDoc, taken, scanned, outcomes,
                   delivered, escaped, closeFails, cd, gv, tokensRemoved, navStarted, released, throwsOn>>

\* a test of pageReleased that always lets the release run
mustReleaseAlways(pageReleased) == TRUE

\* if (!pageReleased): the release runs only where no release ran before
mustRelease(pageReleased) == ~pageReleased

\* forceCloseTimer = setTimeout(forceClosePage, forceCloseTimeout), the
\* listeners, and page.goto(url, ...) starts the navigation.
StartNav(w) ==
    /\ wpc[w] = "page"
    /\ \E answer \in EngineAnswers(wscan[w].currentUrl) :
           wresp' = [wresp EXCEPT ![w] = answer]
    /\ wtimer' = [wtimer EXCEPT ![w] = TRUE]
    /\ wreleased' = [wreleased EXCEPT ![w] = FALSE]
    /\ navOwner' = [navOwner EXCEPT ![wpage[w]] = w]
    /\ navStarted' = navStarted + 1
    /\ wpc' = [wpc EXCEPT ![w] = "nav"]
    /\ UNCHANGED <<resetFailures, tasks, concurrency, httpsOnly, ignoreSimilar, mainPc, queue,
                   processedCount, results, wtask, wscan, wpage, available, inUse,
                   numPages, closed, pageDoc, taken, scanned, outcomes,
                   delivered, escaped, closeFails, cd, gv, tokensRemoved, released, throwsOn>>

\* forceClosePage: the timer fires while page.goto is pending.
ForceClose(w) ==
    /\ wpc[w] = "nav"
    /\ wtimer[w]
    /\ mustRelease(wreleased[w])
    /\ wtimer' = [wtimer EXCEPT ![w] = FALSE]
    /\ wreleased' = [wreleased EXCEPT ![w] = TRUE]
    /\ release(wpage[w])
    /\ released' = released + 1
    /\ UNCHANGED <<resetFailures, tasks, concurrency, httpsOnly, ignoreSimilar, mainPc, queue,
                   processedCount, results, wpc, wtask, wscan, wpage, wresp,
                   numPages, pageDoc, navOwner, taken, scanned, outcomes,
                   delivered, escaped, closeFails, cd, gv, tokensRemoved, navStarted, throwsOn>>

\* page.goto returned or threw: clearTimeout, the page is released unless
\* forceClosePage released it, tryUrl returns result and checkDomain goes on.
ReturnFromGoto(w, result) ==
    /\ wtimer' = [wtimer EXCEPT ![w] = FALSE]
    /\ IF mustRelease(wreleased[w])
       THEN /\ release(wpage[w])
            /\ released' = released + 1
       ELSE UNCHANGED <<available, inUse, closed, released>>
    /\ wreleased' = [wreleased EXCEPT ![w] = FALSE]
    /\ wpage' = [wpage EXCEPT ![w] = 0]
    /\ wresp' = [wresp EXCEPT ![w] = NoResp]
    /\ LET s == afterTryUrl(wscan[w], result)
       IN  /\ Proceed(w, wtask[w], s)
           /\ wtask' = [wtask EXCEPT ![w] =
                  IF ~s.looping /\ ~isReported(checkDomainResult(s).type) THEN 0 ELSE @]

\* The worker's own navigation ends: with a response (the page then shows
\* the final document and page.url() reads it) or with a network error.
NavReturn(w) ==
    /\ wpc[w] = "nav"
    /\ wpage[w] \notin closed
    /\ navOwner[wpage[w]] = w
    /\ wresp[w].kind \in {"resp", "err"}
    /\ navOwner' = [navOwner EXCEPT ![wpage[w]] = 0]
    /\ IF wresp[w].kind = "resp"
       THEN /\ pageDoc' = [pageDoc EXCEPT ![wpage[w]] =
                              [url |-> wresp[w].final, status |-> wresp[w].status]]
            /\ ReturnFromGoto(w, ResponseResult(wresp[w].status, wresp[w].final))
       ELSE /\ pageDoc' = [pageDoc EXCEPT ![wpage[w]] =
                              [url |-> ErrorPageUrl, status |-> NullStatus]]
            /\ ReturnFromGoto(w, ErrorResult(wresp[w].msg))
    /\ UNCHANGED <<resetFailures, tasks, concurrency, httpsOnly, ignoreSimilar, mainPc, queue,
                   processedCount, numPages, taken, scanned,
                   delivered, escaped, closeFails, cd, gv, tokensRemoved, navStarted, throwsOn>>

\* The page was closed under the pending goto: goto throws.
NavClosed(w) ==
    /\ wpc[w] = "nav"
    /\ wpage[w] \in closed
    /\ ReturnFromGoto(w, ErrorResult(AbortMessage))
    /\ UNCHANGED <<resetFailures, tasks, concurrency, httpsOnly, ignoreSimilar, mainPc, queue,
                   processedCount, numPages, pageDoc, navOwner,
                   taken, scanned, delivered, escaped, closeFails, cd, gv, tokensRemoved, navStarted, throwsOn>>

\* Another goto started a navigation on the page after this worker's: the
\* pending goto throws, or, once the page shows a document again, returns
\* with that document.
NavReplaced(w) ==
    /\ wpc[w] = "nav"
    /\ wpage[w] \notin closed
    /\ navOwner[wpage[w]] # w
    /\ \/ ReturnFromGoto(w, ErrorResult(AbortMessage))
       \/ /\ navOwner[wpage[w]] = 0
          /\ ReturnFromGoto(w, ResponseResult(pageDoc[wpage[w]].status,
                                              pageDoc[wpage[w]].url))
    /\ UNCHANGED <<resetFailures, tasks, concurrency, httpsOnly, ignoreSimilar, mainPc, queue,
                   processedCount, numPages, pageDoc, navOwner,
                   taken, scanned, delivered, escaped, closeFails, cd, gv, tokensRemoved, navStarted, throwsOn>>

(***************************************************************************)
(* processDomains after Promise.all(workers)                               *)
(***************************************************************************)
OpenPages == (1..numPages) \ closed

\* Promise.race in the place of Promise.all
anyWorker(W) == \E w \in W : wpc[w] = "exited"

\* await Promise.all(workers): every worker has ended
allWorkers(W) == \A w \in W : wpc[w] = "exited"

\* The sweep of lingering pages (those not showing about:blank, when more
\* than one page is open), then pagePool.destroy(), then return results.
Finish ==
    /\ mainPc = "running"
    /\ allWorkers(spawned(concurrency))
    /\ LET lingering == IF Cardinality(OpenPages) > 1
                        THEN {h \in OpenPages : pageDoc[h].url # BlankUrl}
                        ELSE {}
           pooled    == {available[i] : i \in 1..Len(available)} \cup inUse
       IN  closed' = closeAll(lingering \cup pooled)
    /\ available' = <<>>
    /\ inUse' = {}
    /\ mainPc' = "done"
    /\ UNCHANGED <<resetFailures, tasks, concurrency, httpsOnly, ignoreSimilar, queue,
                   processedCount, results, wpc, wtask, wscan, wpage, wreleased,
                   wtimer, wresp, numPages, pageDoc, navOwner, taken,
                   scanned, outcomes, delivered, escaped, closeFails, cd, gv, tokensRemoved, navStarted, released, throwsOn>>

WorkerNext(w) ==
    \/ TakeTask(w)
    \/ WorkerExit(w)
    \/ Callback(w)
    \/ RemoveToken(w)
    \/ AcquireTransient(w)
    \/ AcquirePooled(w)
    \/ ResetOk(w)
    \/ ResetFail(w)
    \/ StartNav(w)
    \/ ForceClose(w)
    \/ NavReturn(w)
    \/ NavClosed(w)
    \/ NavReplaced(w)

Next ==
    \/ \E w \in AllWorkers : WorkerNext(w)
    \/ Finish

Spec == Init /\ [][Next]_vars

\* Every step that can be taken is taken in the end: the event loop runs
\* each continuation and each timer, and the network answers each
\* navigation that has an answer.
FairSpec ==
    /\ Spec
    /\ \A w \in AllWorkers : WF_vars(WorkerNext(w))
    /\ WF_vars(Finish)

(***************************************************************************)
(* The engine with a browser that may fail to create a page and to close   *)
(* one.                                                                    *)
(***************************************************************************)
\* pagePool.acquire() called before the try block
acquireBeforeTry == FALSE

\* try { page = pagePool ? await pagePool.acquire() : ... : the call is
\* inside tryUrl's try block
acquireInTry == TRUE

\* The tasks for whose result the callback of a run throws: none, or the
\* first task.
ThrowsOn == {{}, {1}}

\* The error of a browser.newPage() that failed: its text holds none of the
\* searched substrings.
NewPageMessage == {}

InitTry ==
    /\ tasks \in {[i \in 1..n |-> TaskDomain(i)] : n \in 1..MaxTasks}
    /\ concurrency \in 1..2
    /\ httpsOnly = FALSE
    /\ ignoreSimilar = FALSE
    /\ mainPc = "init"
    /\ queue = [i \in 1..Len(tasks) |-> i]
    /\ processedCount = 0
    /\ results = <<>>
    /\ wpc = [w \in AllWorkers |-> IF w \in spawned(concurrency) THEN "idle" ELSE "none"]
    /\ wtask = [w \in AllWorkers |-> 0]
    /\ wscan = [w \in AllWorkers |-> NoScan]
    /\ wpage = [w \in AllWorkers |-> 0]
    /\ wreleased = [w \in AllWorkers |-> FALSE]
    /\ wtimer = [w \in AllWorkers |-> FALSE]
    /\ wresp = [w \in AllWorkers |-> NoResp]
    /\ available = <<>>
    /\ inUse = {}
    /\ numPages = 0
    /\ closed = {}
    /\ pageDoc = [h \in Handles |-> BlankDoc]
    /\ navOwner = [h \in Handles |-> 0]
    /\ resetFailures = 0
    /\ taken = [t \in 1..Len(tasks) |-> 0]
    /\ scanned = [t \in 1..Len(tasks) |-> 0]
    /\ outcomes = [t \in 1..Len(tasks) |-> <<>>]
    /\ delivered = [t \in 1..Len(tasks) |-> 0]
    /\ cd = [pc |-> "off", scan |-> NoScan, result |-> NoResult]
    /\ gv = NoCall
    /\ tokensRemoved = 0
    /\ navStarted = 0
    /\ escaped = 0
    /\ closeFails \in BOOLEAN
    /\ released = 0
    /\ throwsOn \in ThrowsOn

\* browser.newPage() rejects inside pagePool.acquire(), with the pool empty
\* or after a reset that failed: tryUrl's catch block finds no page to
\* release and returns the failure, and checkDomain goes on.  Were the call
\* outside the try block, the exception would leave tryUrl and checkDomain
\* and be caught by the worker, which goes to its next task.
AcquireFail(w) ==
    /\ \/ wpc[w] = "acquire" /\ available = <<>>
       \/ wpc[w] = "reset" /\ resetFailures < MaxResetFailures
    /\ IF wpc[w] = "reset"
       THEN /\ inUse' = discard(inUse, wpage[w])
            /\ navOwner' = [navOwner EXCEPT ![wpage[w]] = 0]
            /\ resetFailures' = resetFailures + 1
       ELSE UNCHANGED <<inUse, navOwner, resetFailures>>
    /\ wpage' = [wpage EXCEPT ![w] = 0]
    /\ IF acquireInTry
       THEN LET s == afterTryUrl(wscan[w], ErrorResult(NewPageMessage))
            IN  /\ Proceed(w, wtask[w], s)
                /\ wtask' = [wtask EXCEPT ![w] =
                       IF ~s.looping /\ ~isReported(checkDomainResult(s).type)
                       THEN 0 ELSE @]
                /\ escaped' = escaped
       ELSE /\ wscan' = [wscan EXCEPT ![w] = NoScan]
            /\ wpc' = [wpc EXCEPT ![w] = "idle"]
            /\ wtask' = [wtask EXCEPT ![w] = 0]
            /\ escaped' = escaped + 1
            /\ UNCHANGED <<results, outcomes>>
    /\ UNCHANGED <<tasks, concurrency, httpsOnly, ignoreSimilar, mainPc, queue,
                   processedCount, wreleased, wtimer, wresp, available, numPages,
                   closed, pageDoc, taken, scanned, delivered, closeFails, cd, gv,
                   tokensRemoved, navStarted, released, throwsOn>>

\* await pagePool.initialize(): every browser.newPage() resolved, and
\* processDomains goes on to its queue and its workers.
PoolInitOk ==
    /\ mainPc = "init"
    /\ available' = [i \in 1..pagePoolSize(concurrency) |-> i]
    /\ numPages' = pagePoolSize(concurrency)
    /\ mainPc' = "running"
    /\ UNCHANGED <<tasks, concurrency, httpsOnly, ignoreSimilar, queue, processedCount,
                   results, wpc, wtask, wscan, wpage, wreleased, wtimer, wresp, inUse,
                   closed, pageDoc, navOwner, resetFailures, taken, scanned, outcomes,
                   delivered, escaped, closeFails, cd, gv, tokensRemoved, navStarted, released, throwsOn>>

\* await pagePool.initialize(): a browser.newPage() rejected, Promise.all
\* rejects and, the await standing in no try block, so does processDomains.
PoolInitFail ==
    /\ mainPc = "init"
    /\ \E k \in 0..(pagePoolSize(concurrency) - 1) : numPages' = k
    /\ mainPc' = "rejected"
    /\ UNCHANGED <<tasks, concurrency, httpsOnly, ignoreSimilar, queue, processedCount,
                   results, wpc, wtask, wscan, wpage, wreleased, wtimer, wresp, available,
                   inUse, closed, pageDoc, navOwner, resetFailures, taken, scanned,
                   outcomes, delivered, escaped, closeFails, cd, gv, tokensRemoved,
                   navStarted, released, throwsOn>>

NextTry ==
    \/ Next
    \/ \E w \in AllWorkers : AcquireFail(w)
    \/ PoolInitOk
    \/ PoolInitFail

SpecTry == InitTry /\ [][NextTry]_vars

(***************************************************************************)
(* One checkDomain call on its own: tryUrl is taken by the results it can  *)
(* return for the URL it is given.                                         *)
(***************************************************************************)
ScanDomains == {<<"a", "com">>, <<"www", "a", "com">>, <<"s", "a", "com">>}

Statuses == {200, 399, 400, 403, 404, 520, NullStatus}

\* page.url() after a navigation to url that got a response
FinalUrls(url) ==
    {url,
     Url(url.scheme, IF url.host[1] = "www" THEN Tail(url.host) ELSE <<"www">> \o url.host),
     Url("https", <<"x", "a", "com">>),
     Url("https", <<"r", "net">>)}

ErrorMessages ==
    {{c} : c \in ErrorCodes} \cup
    {{"timeout"}, {"certificate"}, {}, {"ERR_BLOCKED_BY_CLIENT", "timeout"}}

TryUrlResults(url) ==
    {ResponseResult(st, f) : st \in Statuses, f \in FinalUrls(url)} \cup
    {ErrorResult(m) : m \in ErrorMessages}

InitScan ==
    /\ tasks = <<>>
    /\ concurrency = 1
    /\ httpsOnly \in BOOLEAN
    /\ ignoreSimilar \in BOOLEAN
    /\ mainPc = "off"
    /\ queue = <<>>
    /\ processedCount = 0
    /\ results = <<>>
    /\ wpc = [w \in AllWorkers |-> "none"]
    /\ wtask = [w \in AllWorkers |-> 0]
    /\ wscan = [w \in AllWorkers |-> NoScan]
    /\ wpage = [w \in AllWorkers |-> 0]
    /\ wreleased = [w \in AllWorkers |-> FALSE]
    /\ wtimer = [w \in AllWorkers |-> FALSE]
    /\ wresp = [w \in AllWorkers |-> NoResp]
    /\ available = <<>>
    /\ inUse = {}
    /\ numPages = 0
    /\ closed = {}
    /\ pageDoc = [h \in Handles |-> BlankDoc]
    /\ navOwner = [h \in Handles |-> 0]
    /\ resetFailures = 0
    /\ taken = <<>>
    /\ scanned = <<>>
    /\ outcomes = <<>>
    /\ delivered = <<>>
    /\ gv = NoCall
    /\ tokensRemoved = 0
    /\ navStarted = 0
    /\ escaped = 0
    /\ closeFails = FALSE
    /\ released = 0
    /\ throwsOn = {}
    /\ \E d \in ScanDomains :
           cd = [pc |-> "loop",
                 scan |-> checkDomainStart(d, httpsOnly, ignoreSimilar),
                 result |-> NoResult]

\* One pass of the while loop: tryUrl(currentUrl) returns and the body runs.
ScanAttempt ==
    /\ cd.pc = "loop"
    /\ cd.scan.looping
    /\ \E result \in TryUrlResults(cd.scan.currentUrl) :
           cd' = [cd EXCEPT !.scan = afterTryUrl(@, result)]
    /\ UNCHANGED <<engineVars, gv>>

\* The loop is left: checkDomain classifies and returns.
ScanReturn ==
    /\ cd.pc = "loop"
    /\ ~cd.scan.looping
    /\ cd' = [cd EXCEPT !.pc = "done", !.result = checkDomainResult(cd.scan)]
    /\ UNCHANGED <<engineVars, gv>>

NextScan ==
    \/ ScanAttempt
    \/ ScanReturn

SpecScan == InitScan /\ [][NextScan]_vars

(***************************************************************************)
(* One checkDomain call in a program whose MAX_VARIANT_ATTEMPTS is any     *)
(* value from 1 to MaxBudget (the shipped value is 1, under which a scan   *)
(* never makes a second attempt).                                          *)
(***************************************************************************)
MaxBudget == 3

BudgetStatuses == {200, 403, 404, 520}

\* What tryUrl can return for url: a response from url itself, or an error
\* whose message holds one of the searched codes, or none of them.
BudgetResults(url) ==
    {ResponseResult(st, url) : st \in BudgetStatuses} \cup
    {ErrorResult({c}) : c \in ErrorCodes} \cup
    {ErrorResult({})}

InitBudget ==
    /\ tasks = <<>>
    /\ concurrency = 1
    /\ httpsOnly \in BOOLEAN
    /\ ignoreSimilar = FALSE
    /\ mainPc = "off"
    /\ queue = <<>>
    /\ processedCount = 0
    /\ results = <<>>
    /\ wpc = [w \in AllWorkers |-> "none"]
    /\ wtask = [w \in AllWorkers |-> 0]
    /\ wscan = [w \in AllWorkers |-> NoScan]
    /\ wpage = [w \in AllWorkers |-> 0]
    /\ wreleased = [w \in AllWorkers |-> FALSE]
    /\ wtimer = [w \in AllWorkers |-> FALSE]
    /\ wresp = [w \in AllWorkers |-> NoResp]
    /\ available = <<>>
    /\ inUse = {}
    /\ numPages = 0
    /\ closed = {}
    /\ pageDoc = [h \in Handles |-> BlankDoc]
    /\ navOwner = [h \in Handles |-> 0]
    /\ resetFailures = 0
    /\ taken = <<>>
    /\ scanned = <<>>
    /\ outcomes = <<>>
    /\ delivered = <<>>
    /\ gv = NoCall
    /\ tokensRemoved = 0
    /\ navStarted = 0
    /\ escaped = 0
    /\ closeFails = FALSE
    /\ released = 0
    /\ throwsOn = {}
    /\ \E d \in ScanDomains, b \in 1..MaxBudget :
           cd = [pc |-> "loop",
                 scan |-> checkDomainStartWith(d, httpsOnly, ignoreSimilar, b),
                 result |-> NoResult]

\* One pass of the while loop: tryUrl(currentUrl) returns and the body runs.
BudgetAttempt ==
    /\ cd.pc = "loop"
    /\ cd.scan.looping
    /\ \E result \in BudgetResults(cd.scan.currentUrl) :
           cd' = [cd EXCEPT !.scan = afterTryUrl(@, result)]
    /\ UNCHANGED <<engineVars, gv>>

\* The loop is left: checkDomain classifies and returns.
BudgetReturn ==
    /\ cd.pc = "loop"
    /\ ~cd.scan.looping
    /\ cd' = [cd EXCEPT !.pc = "done", !.result = checkDomainResult(cd.scan)]
    /\ UNCHANGED <<engineVars, gv>>

NextBudget ==
    \/ BudgetAttempt
    \/ BudgetReturn

SpecBudget == InitBudget /\ [][NextBudget]_vars

\* Every tryUrl call returns and the code after the loop runs.
FairSpecBudget == SpecBudget /\ WF_vars(NextBudget)

(***************************************************************************)
(* One getSmartVariants call on its own, made with httpsOnly = true and     *)
(* with httpsOnly = false on the same arguments.                            *)
(***************************************************************************)
\* The status codes getSmartVariants tells apart, and two it does not.
VariantStatuses == {NullStatus, 403, 404, 500, 520}

\* The URLs checkDomain can pass as lastUrl for domain.
LastUrls(domain) ==
    {Url(sch, h) : sch \in {"https", "http"},
                   h \in {domain, <<"www">> \o domain, stripSubdomain(domain)}}

InitVariants ==
    /\ tasks = <<>>
    /\ concurrency = 1
    /\ httpsOnly = FALSE
    /\ ignoreSimilar = FALSE
    /\ mainPc = "off"
    /\ queue = <<>>
    /\ processedCount = 0
    /\ results = <<>>
    /\ wpc = [w \in AllWorkers |-> "none"]
    /\ wtask = [w \in AllWorkers |-> 0]
    /\ wscan = [w \in AllWorkers |-> NoScan]
    /\ wpage = [w \in AllWorkers |-> 0]
    /\ wreleased = [w \in AllWorkers |-> FALSE]
    /\ wtimer = [w \in AllWorkers |-> FALSE]
    /\ wresp = [w \in AllWorkers |-> NoResp]
    /\ available = <<>>
    /\ inUse = {}
    /\ numPages = 0
    /\ closed = {}
    /\ pageDoc = [h \in Handles |-> BlankDoc]
    /\ navOwner = [h \in Handles |-> 0]
    /\ resetFailures = 0
    /\ taken = <<>>
    /\ scanned = <<>>
    /\ outcomes = <<>>
    /\ delivered = <<>>
    /\ cd = [pc |-> "off", scan |-> NoScan, result |-> NoResult]
    /\ tokensRemoved = 0
    /\ navStarted = 0
    /\ escaped = 0
    /\ closeFails = FALSE
    /\ released = 0
    /\ throwsOn = {}
    /\ \E d \in ScanDomains, e \in ErrorCodes \cup {NullCode}, st \in VariantStatuses :
           \E u \in LastUrls(d) :
               gv = [NoCall EXCEPT !.pc = "in", !.domain = d, !.errorCode = e,
                                   !.statusCode = st, !.lastUrl = u]

\* getSmartVariants(domain, errorCode, statusCode, lastUrl, true) and
\* getSmartVariants(domain, errorCode, statusCode, lastUrl, false) return.
GetVariants ==
    /\ gv.pc = "in"
    /\ gv' = [gv EXCEPT
                 !.pc = "out",
                 !.strict = getSmartVariants(gv.domain, gv.errorCode, gv.statusCode,
                                             gv.lastUrl, TRUE),
                 !.loose = getSmartVariants(gv.domain, gv.errorCode, gv.statusCode,
                                            gv.lastUrl, FALSE)]
    /\ UNCHANGED <<engineVars, cd>>

NextVariants == GetVariants

SpecVariants == InitVariants /\ [][NextVariants]_vars

(***************************************************************************)
(* PagePool on its own: clients that call acquire(), hold the page they    *)
(* are given and release() it, and a destroy() once no client holds a page. *)
(***************************************************************************)
InitPool ==
    /\ tasks = <<>>
    /\ concurrency \in 1..MaxConcurrency
    /\ httpsOnly = FALSE
    /\ ignoreSimilar = FALSE
    /\ mainPc = "pool"
    /\ queue = <<>>
    /\ processedCount = 0
    /\ results = <<>>
    /\ \E k \in 1..(MaxConcurrency + 1) :
           wpc = [w \in AllWorkers |-> IF w <= k THEN "acquire" ELSE "none"]
    /\ wtask = [w \in AllWorkers |-> 0]
    /\ wscan = [w \in AllWorkers |-> NoScan]
    /\ wpage = [w \in AllWorkers |-> 0]
    /\ wreleased = [w \in AllWorkers |-> FALSE]
    /\ wtimer = [w \in AllWorkers |-> FALSE]
    /\ wresp = [w \in AllWorkers |-> NoResp]
    /\ available = [i \in 1..pagePoolSize(concurrency) |-> i]
    /\ inUse = {}
    /\ numPages = pagePoolSize(concurrency)
    /\ closed = {}
    /\ pageDoc = [h \in Handles |-> BlankDoc]
    /\ navOwner = [h \in Handles |-> 0]
    /\ resetFailures = 0
    /\ taken = <<>>
    /\ scanned = <<>>
    /\ outcomes = <<>>
    /\ delivered = <<>>
    /\ cd = [pc |-> "off", scan |-> NoScan, result |-> NoResult]
    /\ gv = NoCall
    /\ tokensRemoved = 0
    /\ navStarted = 0
    /\ escaped = 0
    /\ closeFails = FALSE
    /\ released = 0
    /\ throwsOn = {}

\* The client calls pagePool.release(page) with the page acquire() gave it.
PoolRelease(w) ==
    /\ wpc[w] = "page"
    /\ release(wpage[w])
    /\ wpage' = [wpage EXCEPT ![w] = 0]
    /\ wpc' = [wpc EXCEPT ![w] = "acquire"]
    /\ UNCHANGED <<resetFailures, tasks, concurrency, httpsOnly, ignoreSimilar, mainPc, queue,
                   processedCount, results, wtask, wscan, wreleased, wtimer, wresp,
                   numPages, pageDoc, navOwner, taken, scanned, outcomes,
                   delivered, escaped, closeFails, cd, gv, tokensRemoved, navStarted, released, throwsOn>>

\* pagePool.destroy(): the pages in available and in inUse are closed (a
\* close that fails is ignored) and both collections are emptied.
Destroy ==
    /\ mainPc = "pool"
    /\ \A w \in AllWorkers : wpc[w] \in {"acquire", "none"}
    /\ closed' = closeAll({available[i] : i \in 1..Len(available)} \cup inUse)
    /\ available' = <<>>
    /\ inUse' = {}
    /\ mainPc' = "destroyed"
    /\ UNCHANGED <<resetFailures, tasks, concurrency, httpsOnly, ignoreSimilar, queue,
                   processedCount, results, wpc, wtask, wscan, wpage, wreleased,
                   wtimer, wresp, numPages, pageDoc, navOwner, taken,
                   scanned, outcomes, delivered, escaped, closeFails, cd, gv, tokensRemoved, navStarted, released, throwsOn>>

PoolClient(w) ==
    /\ mainPc = "pool"
    /\ \/ AcquireTransient(w)
       \/ AcquirePooled(w)
       \/ ResetOk(w)
       \/ ResetFail(w)
       \/ PoolRelease(w)

NextPool ==
    \/ \E w \in AllWorkers : PoolClient(w)
    \/ Destroy

SpecPool == InitPool /\ [][NextPool]_vars

(***************************************************************************)
(* Properties                                                              *)
(***************************************************************************)
TaskIds == 1..Len(tasks)

OutcomeTypes == {"null", "dead", "redirect", "inconclusive"}

\* C1: every task is taken from the queue at most once, scanned at most once
\* and given at most one outcome, each outcome being Active ("null"), Dead,
\* Redirect or Inconclusive; and when processDomains finishes every task has
\* been taken once, scanned once and given one outcome.
EachTaskOneOutcome ==
    mainPc \in {"running", "done"} =>
        /\ \A t \in TaskIds :
               /\ taken[t] <= 1
               /\ scanned[t] <= 1
               /\ Len(outcomes[t]) <= 1
               /\ \A i \in 1..Len(outcomes[t]) : outcomes[t][i] \in OutcomeTypes
        /\ mainPc = "done" =>
               /\ queue = <<>>
               /\ \A t \in TaskIds :
                      taken[t] = 1 /\ scanned[t] = 1 /\ Len(outcomes[t]) = 1

\* processDomains finished a list of two tasks or more, one probe having
\* failed and one having succeeded.
AllTasksDoneWitness ==
    /\ mainPc = "done"
    /\ Len(tasks) >= 2
    /\ \E t \in TaskIds : outcomes[t] = <<"dead">>
    /\ \E t \in TaskIds : outcomes[t] = <<"null">>

\* The workers that hold a page: from available.pop() or browser.newPage()
\* until tryUrl returns.
Holding(w) == wpc[w] \in {"reset", "page", "nav"}

\* C2: no page is held by two attempts at a time.
NoSharedHandle ==
    \A w1, w2 \in AllWorkers :
        (w1 # w2 /\ Holding(w1) /\ Holding(w2)) => wpage[w1] # wpage[w2]

\* The results tryUrl can return in a run of its own for a navigation that
\* the network answers with answer: the answer's result, or the error of a
\* goto cut short when the attempt's own timer closed its page.
SoloResults(answer) ==
    (CASE answer.kind = "resp" -> {ResponseResult(answer.status, answer.final)}
       [] answer.kind = "err"  -> {ErrorResult(answer.msg)}
       [] OTHER                -> {}) \cup {ErrorResult(AbortMessage)}

\* C3: the outcome a scan ends with is one that the answers to its own
\* navigations give: it does not depend on the other scans that run.
OutcomeFromOwnAnswers ==
    [][\A w \in AllWorkers :
          (wpc[w] = "nav" /\ wtask[w] \in TaskIds
             /\ Len(outcomes'[wtask[w]]) > Len(outcomes[wtask[w]]))
          => outcomes'[wtask[w]][Len(outcomes'[wtask[w]])] \in
                 {checkDomainResult(afterTryUrl(wscan[w], r)).type :
                      r \in SoloResults(wresp[w])}]_vars

\* C4: every attempt that waits for its navigation returns in the end.
AttemptsEventuallyReturn ==
    \A w \in AllWorkers : (wpc[w] = "nav") ~> (wpc[w] # "nav")

\* The navigations in flight: the gotos started and not yet returned.
InFlight == {w \in AllWorkers : wpc[w] \in {"reset", "nav"}}

\* C5: the navigations in flight never outnumber the concurrency level.
InFlightAtMostConcurrency == Cardinality(InFlight) <= concurrency

\* As many navigations to task URLs are in flight as there are workers, and
\* more than one.
FullConcurrencyWitness ==
    /\ concurrency >= 2
    /\ Cardinality({w \in AllWorkers : wpc[w] = "nav"}) = concurrency

IsBlocked(a) == a.errorCode = "ERR_BLOCKED_BY_CLIENT"

IsCertFailure(a) == a.errorCode \in {"ERR_CERT", "ERR_SSL_PROTOCOL_ERROR"}

ScanLog == cd.scan.attempts

\* C6: a scan that ends without a successful attempt is Dead or
\* Inconclusive: Inconclusive exactly when some attempt of its log failed
\* with blocked-by-client, Dead otherwise; so never Dead when all did.
ExhaustedIsDeadOrInconclusive ==
    (cd.pc = "done" /\ ~cd.scan.successResult.found) =>
        /\ cd.result.type \in {"dead", "inconclusive"}
        /\ cd.result.type = "inconclusive"
               <=> \E i \in 1..Len(ScanLog) : IsBlocked(ScanLog[i])
        /\ (Len(ScanLog) > 0 /\ \A i \in 1..Len(ScanLog) : IsBlocked(ScanLog[i]))
               => cd.result.type # "dead"

\* A scan all of whose attempts were blocked by the client has ended
\* Inconclusive.
BlockedScanWitness ==
    /\ cd.pc = "done"
    /\ Len(ScanLog) > 0
    /\ \A i \in 1..Len(ScanLog) : IsBlocked(ScanLog[i])
    /\ cd.result.type = "inconclusive"

\* C7: a scan whose attempts all failed with a TLS/certificate error does
\* not end Dead.
CertFailureNotDead ==
    (/\ cd.pc = "done"
     /\ Len(ScanLog) > 0
     /\ \A i \in 1..Len(ScanLog) : IsCertFailure(ScanLog[i]))
        => cd.result.type # "dead"

\* C8: no http:// URL is attempted, or is about to be, after a
\* TLS/certificate failure on an https:// URL.
NoHttpAfterCertFailure ==
    /\ \A i, j \in 1..Len(ScanLog) :
           (i < j /\ IsCertFailure(ScanLog[i]) /\ ScanLog[i].url.scheme = "https")
               => ScanLog[j].url.scheme # "http"
    /\ (/\ cd.pc = "loop"
        /\ cd.scan.looping
        /\ \E i \in 1..Len(ScanLog) :
               IsCertFailure(ScanLog[i]) /\ ScanLog[i].url.scheme = "https")
           => cd.scan.currentUrl.scheme # "http"

\* A scan has ended whose attempt on an https:// URL failed with a
\* certificate error.
CertFailureWitness ==
    /\ cd.pc = "done"
    /\ \E i \in 1..Len(ScanLog) :
           IsCertFailure(ScanLog[i]) /\ ScanLog[i].url.scheme = "https"

IsDnsFailure(a) == a.errorCode = "ERR_NAME_NOT_RESOLVED"

NoWww(domain) == Len(domain) > 0 /\ domain[1] # "www"

\* C9: after a DNS failure on https://<domain> the scan attempts
\* https://www.<domain>; if that fails with a DNS failure too, the scan ends
\* Dead with a reason naming the DNS failure and a log of 2 entries.
DnsFailureTriesWww ==
    (/\ cd.pc = "done"
     /\ NoWww(cd.scan.domain)
     /\ Len(ScanLog) > 0
     /\ ScanLog[1].url = Url("https", cd.scan.domain)
     /\ IsDnsFailure(ScanLog[1]))
        => /\ Len(ScanLog) >= 2
           /\ ScanLog[2].url = Url("https", <<"www">> \o cd.scan.domain)
           /\ IsDnsFailure(ScanLog[2]) =>
                  /\ Len(ScanLog) = 2
                  /\ cd.result.type = "dead"
                  /\ "ERR_NAME_NOT_RESOLVED" \in cd.result.reason.marks

\* C10: when https://<domain> of a bare domain answers 403, the scan probes
\* https://www.<domain>, and the domain is Active if that probe succeeds
\* without leaving the domain.
Http403TriesWww ==
    (/\ cd.pc = "done"
     /\ NoWww(cd.scan.domain)
     /\ ~hasSubdomain(cd.scan.domain)
     /\ Len(ScanLog) > 0
     /\ ScanLog[1].statusCode = 403)
        => /\ Len(ScanLog) >= 2
           /\ ScanLog[2].url = Url("https", <<"www">> \o cd.scan.domain)
           /\ (ScanLog[2].success /\ ScanLog[2].redirect = <<>>)
                  => cd.result.type = "null"

\* The tasks whose scan has completed and whose worker has gone on.
Completed(t) ==
    /\ Len(outcomes[t]) > 0
    /\ \A w \in AllWorkers : wtask[w] # t

\* C11: every task whose scan has completed has had its outcome passed to
\* onResult exactly once by the time its worker goes on, whatever the
\* outcome.
EveryOutcomeDelivered ==
    \A t \in TaskIds :
        /\ delivered[t] <= 1
        /\ Completed(t) => delivered[t] = 1

\* C11 as amended: an outcome other than Active is passed to onResult
\* exactly once, after its scan completed and before its worker goes on; an
\* Active outcome is never passed.
ReportedOutcomeDelivered ==
    \A t \in TaskIds :
        /\ delivered[t] <= 1
        /\ delivered[t] = 1 => (Len(outcomes[t]) = 1 /\ outcomes[t][1] # "null")
        /\ (Completed(t) /\ outcomes[t][1] # "null") => delivered[t] = 1

\* processDomains has finished with one outcome passed to onResult and one
\* Active outcome not passed.
DeliveredWitness ==
    /\ mainPc = "done"
    /\ \E t \in TaskIds : outcomes[t] = <<"dead">> /\ delivered[t] = 1
    /\ \E t \in TaskIds : outcomes[t] = <<"null">> /\ delivered[t] = 0

\* A host without its leading www label.
BareHost(h) == IF Len(h) > 0 /\ Head(h) = "www" THEN Tail(h) ELSE h

\* The last two labels of a host without its leading www label.
ApexOf(h) ==
    LET b == BareHost(h)
    IN  IF Len(b) > 2 THEN <<b[Len(b) - 1], b[Len(b)]>> ELSE b

\* C12: a scan whose probe succeeded ends Redirect exactly when the
\* requested host and the final host differ once their leading www is
\* stripped, unless ignoreSimilar is set and both have the same base domain;
\* every other successful scan ends Active.
RedirectIffHostsDiffer ==
    (cd.pc = "done" /\ cd.scan.successResult.found) =>
        LET requested == ScanLog[Len(ScanLog)].url.host
            final     == cd.scan.successResult.finalUrl.host
            differ    == BareHost(requested) # BareHost(final)
            similar   == cd.scan.ignoreSimilar /\ ApexOf(requested) = ApexOf(final)
        IN  cd.result.type = IF differ /\ ~similar THEN "redirect" ELSE "null"

\* With ignoreSimilar set, a probe that succeeded on another host of the
\* same base domain has ended Active.
SimilarRedirectWitness ==
    /\ cd.pc = "done"
    /\ cd.scan.successResult.found
    /\ cd.scan.ignoreSimilar
    /\ BareHost(ScanLog[Len(ScanLog)].url.host) # BareHost(cd.scan.successResult.finalUrl.host)
    /\ cd.result.type = "null"

\* C13: a Dead or Inconclusive outcome carries a reason, and the reason of a
\* Dead outcome is the one recorded by the last attempt of the scan's log.
DeadReasonFromLastAttempt ==
    (cd.pc = "done" /\ cd.result.type \in {"dead", "inconclusive"}) =>
        /\ cd.result.reason.kind # "none"
        /\ cd.result.type = "dead" =>
               /\ Len(ScanLog) > 0
               /\ cd.result.reason = ScanLog[Len(ScanLog)].reason

\* Scans have ended Dead on a failed response and on a network error.
DeadReasonWitness ==
    /\ cd.pc = "done"
    /\ cd.result.type = "dead"
    /\ cd.result.reason.kind \in {"http", "error"}
    /\ cd.result.reason = ScanLog[Len(ScanLog)].reason

NotHttp(url) == url.scheme # "http"

\* C14: getSmartVariants with httpsOnly = true returns no http:// URL, and
\* returns what it returns with httpsOnly = false less the http:// entries,
\* in the same order.
HttpsOnlyFiltersHttp ==
    gv.pc = "out" =>
        /\ \A i \in 1..Len(gv.strict) : gv.strict[i].scheme # "http"
        /\ gv.strict = SelectSeq(gv.loose, NotHttp)

\* A call whose httpsOnly = false result holds http:// URLs and whose
\* httpsOnly = true result holds the others.
HttpsOnlyWitness ==
    /\ gv.pc = "out"
    /\ \E i \in 1..Len(gv.loose) : gv.loose[i].scheme = "http"
    /\ Len(gv.strict) > 0
    /\ Len(gv.strict) < Len(gv.loose)

\* The handles in PagePool.available.
Available == {available[i] : i \in 1..Len(available)}

\* The handles created by PagePool.initialize().
PoolHandles == 1..pagePoolSize(concurrency)

\* C15: release() puts into available only a handle that is in inUse and
\* closes any other; available and inUse are always disjoint, hold only
\* handles created by initialize(), each once, and at most size handles in
\* all.
PoolSetsSound ==
    /\ [](/\ Available \cap inUse = {}
          /\ Cardinality(Available) = Len(available)
          /\ Available \cup inUse \subseteq PoolHandles
          /\ Len(available) + Cardinality(inUse) <= pagePoolSize(concurrency))
    /\ [][\A w \in AllWorkers :
              (wpc[w] = "page" /\ wpc'[w] = "acquire") =>
                  IF wpage[w] \in inUse
                  THEN /\ available' = Append(available, wpage[w])
                       /\ wpage[w] \notin inUse'
                       /\ closed' = closed
                  ELSE /\ available' = available
                       /\ closed' = closed \cup {wpage[w]}]_vars

\* Pooled and transient handles have been acquired and released: a handle
\* is back in available, a transient handle is closed, another is in inUse.
PoolReleaseWitness ==
    /\ mainPc = "pool"
    /\ available # <<>>
    /\ inUse # {}
    /\ \E h \in closed : h \notin PoolHandles

\* One client alone uses a pool of size 1: each of its acquire() calls is
\* followed by its release().
LoneClientSizeOne ==
    /\ pagePoolSize(concurrency) = 1
    /\ \A w \in AllWorkers : w # 1 => wpc[w] = "none"

\* C16: with a pool of size 1 and acquire() followed by release() again and
\* again, at most 1 handle is created beyond the one initialize() created,
\* and available never holds a handle that initialize() did not create.
SizeOneCreatesAtMostOne ==
    LoneClientSizeOne =>
        /\ numPages <= pagePoolSize(concurrency) + 1
        /\ Available \subseteq PoolHandles

\* The handles of initialize() that the pool holds no more.
Discarded == IF mainPc = "pool" THEN PoolHandles \ (Available \cup inUse) ELSE {}

\* The handles the clients hold.
HandedOut == {wpage[w] : w \in {v \in AllWorkers : wpc[v] = "page"}}

DestroyClosesEveryHandle ==
    mainPc = "destroyed" =>
        /\ available = <<>>
        /\ inUse = {}
        /\ \A h \in 1..numPages : h \in closed

\* The attempts that have their token and have not started their navigation.
TokenHolders == {w \in AllWorkers : wpc[w] \in {"acquire", "reset", "page"}}

\* C19: every attempt removes one token before it acquires a page and
\* before it starts its navigation: the navigations started never outnumber
\* the tokens removed, and the tokens removed are one for each navigation
\* started and one for each attempt on its way to its navigation.
OneTokenPerNavigation ==
    /\ navStarted <= tokensRemoved
    /\ tokensRemoved = navStarted + Cardinality(TokenHolders)
    /\ \A w \in AllWorkers : wpc[w] = "token" => wpage[w] = 0

\* A navigation has been started and another attempt, with its token, holds
\* a page and has not started its own.
TokenWitness ==
    /\ navStarted >= 1
    /\ tokensRemoved > navStarted
    /\ \E w \in AllWorkers : wpc[w] = "page"

\* The tasks that a worker took and has finished with.
Finished(t) ==
    /\ taken[t] > 0
    /\ \A w \in AllWorkers : wtask[w] # t

\* C20: no failure inside an attempt leaves tryUrl or checkDomain as an
\* exception: the scan of every task a worker has finished with has
\* returned an outcome, and an attempt that ends on a failure to acquire a
\* page or on an error of its own navigation gives a Dead or Inconclusive
\* outcome.
NoFailureEscapes ==
    /\ [](/\ escaped = 0
          /\ \A t \in TaskIds : Finished(t) => Len(outcomes[t]) = 1)
    /\ [][\A w \in AllWorkers :
              (/\ wtask[w] \in TaskIds
               /\ wpc'[w] # wpc[w]
               /\ \/ wpc[w] \in {"acquire", "reset"} /\ wpage'[w] = 0
                  \/ /\ wpc[w] = "nav" /\ wresp[w].kind = "err"
                     /\ navOwner[wpage[w]] = w)
              => /\ Len(outcomes'[wtask[w]]) = 1
                 /\ outcomes'[wtask[w]][1] \in {"dead", "inconclusive"}]_vars

\* With a browser whose page.close() fails, one task has ended Dead after
\* browser.newPage() failed and another after its navigation.
FailuresFoldedWitness ==
    /\ closeFails
    /\ mainPc = "done"
    /\ tokensRemoved > navStarted
    /\ navStarted > 0
    /\ \A t \in TaskIds : outcomes[t] = <<"dead">>

\* C21: a failure while the page pool is initialized or destroyed does not
\* make processDomains reject: the tasks are processed and the results
\* returned.
PoolFailureDoesNotAbort ==
    /\ mainPc # "rejected"
    /\ mainPc = "done" => \A t \in TaskIds : Len(outcomes[t]) = 1

\* The www. form of a domain.
WwwForm(d) == IF Len(d) > 0 /\ Head(d) = "www" THEN d ELSE <<"www">> \o d

\* The policy table's rows for DNS failure, connection refused and
\* connection timed out; d is the domain, u the last URL tried.
PolicyTable(d, code, u) ==
    LET wwwTried   == Len(u.host) > 0 /\ Head(u.host) = "www"
        downgraded == u.scheme = "http"
    IN  CASE code = "ERR_NAME_NOT_RESOLVED" ->
                 IF wwwTried THEN <<>>
                 ELSE <<Url("https", WwwForm(d)), Url("http", WwwForm(d))>>
          [] code = "ERR_CONNECTION_REFUSED" ->
                 IF ~downgraded
                 THEN <<Url("http", d), Url("http", WwwForm(d)), Url("https", WwwForm(d))>>
                 ELSE IF ~wwwTried
                 THEN <<Url("http", WwwForm(d)), Url("https", WwwForm(d))>>
                 ELSE <<>>
          [] code = "ERR_CONNECTION_TIMED_OUT" ->
                 IF ~wwwTried
                 THEN <<Url("https", WwwForm(d)), Url("http", d), Url("http", WwwForm(d))>>
                 ELSE <<Url("http", d), Url("http", WwwForm(d))>>

TableCodes ==
    {"ERR_NAME_NOT_RESOLVED", "ERR_CONNECTION_REFUSED", "ERR_CONNECTION_TIMED_OUT"}

\* C22: for a DNS failure, a refused connection and a connection timed out,
\* getSmartVariants with httpsOnly off returns the candidates of the policy
\* table in the table's order; after a DNS failure on a www. URL, none.
VariantsFollowTable ==
    (gv.pc = "out" /\ gv.errorCode \in TableCodes) =>
        /\ gv.loose = PolicyTable(gv.domain, gv.errorCode, gv.lastUrl)
        /\ (/\ gv.errorCode = "ERR_NAME_NOT_RESOLVED"
            /\ Len(gv.lastUrl.host) > 0
            /\ Head(gv.lastUrl.host) = "www") => gv.loose = <<>>

\* A call has returned for a DNS failure after a www. URL, with no
\* candidate.
TableWitness ==
    /\ gv.pc = "out"
    /\ gv.errorCode = "ERR_NAME_NOT_RESOLVED"
    /\ Head(gv.lastUrl.host) = "www"
    /\ gv.loose = <<>>

\* C23: an attempt that failed with ERR_BLOCKED_BY_CLIENT is the last one of
\* its scan: getSmartVariants has no candidate after it and the loop is left,
\* however many attempts the budget still allowed.
BlockedAttemptIsLast ==
    \A i \in 1..Len(ScanLog) :
        ScanLog[i].errorCode = "ERR_BLOCKED_BY_CLIENT" =>
            /\ i = Len(ScanLog)
            /\ ~cd.scan.looping
            /\ getSmartVariants(cd.scan.domain, ScanLog[i].errorCode,
                                ScanLog[i].statusCode, ScanLog[i].url,
                                cd.scan.httpsOnly) = <<>>

\* A scan that returned after a blocked second attempt with a third allowed.
BlockedWithBudgetLeft ==
    /\ cd.pc = "done"
    /\ cd.scan.maxAttempts = 3
    /\ Len(ScanLog) = 2
    /\ ScanLog[2].errorCode = "ERR_BLOCKED_BY_CLIENT"

Occurrences(c) == Cardinality({i \in 1..Len(ScanLog) : ScanLog[i].errorCode = c})

\* C25: the tally of an error code is the number of attempts in the log that
\* failed with it, the loop is left once a tally exceeds
\* MAX_RETRIES_PER_ERROR_TYPE, and so no code occurs in the log more than
\* MAX_RETRIES_PER_ERROR_TYPE + 1 times.
TallyCountsAndStops ==
    \A c \in ErrorCodes :
        /\ cd.scan.errorCounts[c] = Occurrences(c)
        /\ cd.scan.errorCounts[c] > MAX_RETRIES_PER_ERROR_TYPE => ~cd.scan.looping
        /\ Occurrences(c) <= MAX_RETRIES_PER_ERROR_TYPE + 1

\* A scan stopped by the tally with an attempt of its budget unused.
TallyStopWitness ==
    /\ cd.pc = "done"
    /\ cd.scan.maxAttempts = 3
    /\ Len(ScanLog) = 2
    /\ \E c \in ErrorCodes : Occurrences(c) = MAX_RETRIES_PER_ERROR_TYPE + 1

\* C26: when every tryUrl call returns, a scan returns, and its log never
\* holds more attempts than the budget.
ScanTerminatesWithinBudget ==
    /\ [](Len(ScanLog) <= cd.scan.maxAttempts)
    /\ <>(cd.pc = "done")

\* A scan that returned after using its whole budget of three attempts.
WholeBudgetWitness ==
    /\ cd.pc = "done"
    /\ cd.scan.maxAttempts = 3
    /\ Len(ScanLog) = 3

Unreleased == {w \in AllWorkers : wpc[w] = "nav" /\ ~wreleased[w]}

\* C24: every attempt that acquired a handle and started its navigation has
\* released the handle once by the time it returns and never again: the
\* releases made so far are one for every attempt started, less the
\* attempts still pending without a release, and the force-abort timer of an
\* attempt is armed only while the attempt is pending.
ReleasedExactlyOnce ==
    /\ released = navStarted - Cardinality(Unreleased)
    /\ \A w \in AllWorkers : wtimer[w] => wpc[w] = "nav"

\* One attempt was released by its timer and returned afterwards, another
\* released its handle on return.
ReleaseWitness ==
    /\ mainPc = "running"
    /\ released = 2
    /\ navStarted = 2
    /\ \E h \in closed : pageDoc[h] = BlankDoc
    /\ \A w \in AllWorkers : wpc[w] # "nav"

\* C27: an attempt is a success exactly when tryUrl got a response with a
\* status code from 200 to 399; a status of 400 or more, no status, and a
\* navigation error all give a failed attempt.
SuccessIffStatusBelow400 ==
    \A i \in 1..Len(ScanLog) :
        ScanLog[i].success <=>
            /\ ScanLog[i].statusCode # NullStatus
            /\ ScanLog[i].statusCode >= 200
            /\ ScanLog[i].statusCode <= 399

\* An attempt answered with status 400 was logged as failed.
Status400Witness ==
    /\ Len(ScanLog) = 1
    /\ ScanLog[1].statusCode = 400
    /\ ~ScanLog[1].success

Reported(t) == Len(outcomes[t]) = 1 /\ outcomes[t][1] # "null"

\* C29: a result stays in the returned list when onResult throws for it, the
\* worker goes on to the tasks left, and the other results are as they
\* would be: the list holds one result for each task with an outcome other
\* than Active, whether onResult threw for it or not, and when
\* processDomains returns every task has its outcome.
ThrowingCallbackLosesNothing ==
    /\ Len(results) = Cardinality({t \in TaskIds : Reported(t)})
    /\ \A t \in TaskIds :
           Reported(t) => \E i \in 1..Len(results) :
                              /\ results[i].domain = tasks[t]
                              /\ results[i].type = outcomes[t][1]
    /\ \A t \in TaskIds : delivered[t] >= 1 => Reported(t)
    /\ mainPc = "done" => \A t \in TaskIds : Len(outcomes[t]) = 1

\* One worker had onResult throw for the result of the first task, went on
\* to the second, and processDomains returned both results.
ThrownCallbackWitness ==
    /\ mainPc = "done"
    /\ concurrency = 1
    /\ throwsOn = {1}
    /\ Len(tasks) = 2
    /\ delivered[1] = 1
    /\ delivered[2] = 1
    /\ Len(results) = 2

EveryProbeReturns == \A w \in AllWorkers : []<>(wpc[w] # "nav")

\* C30: when every probe and every callback returns, processDomains returns;
\* a worker ends only when it finds the queue empty, and the page pool is
\* destroyed and the results returned only after every worker has ended,
\* with the queue empty.
ProcessDomainsTerminates ==
    /\ [](mainPc = "done" =>
              /\ queue = <<>>
              /\ \A w \in AllWorkers : wpc[w] \in {"none", "exited"})
    /\ [][\A w \in AllWorkers :
              (wpc[w] # "exited" /\ wpc'[w] = "exited") => queue = <<>>]_vars
    /\ (EveryProbeReturns => <>(mainPc = "done"))

\* processDomains returned after one of two workers found the queue empty
\* without having taken a task.
IdleWorkerWitness ==
    /\ mainPc = "done"
    /\ concurrency = 2
    /\ Len(tasks) = 1
    /\ taken[1] = 1
    /\ available = <<>>

====
